---------------------------- MODULE Spec2Model ----------------------------
(***************************************************************************)
(* A model of the tremor language server (src/src/main.rs): a Backend with *)
(* no fields whose handlers parse a text with the tremor-script analyzer   *)
(* and publish at most one diagnostic through the printer.                 *)
(*                                                                         *)
(* Every handler is a synchronous fn(&self, ...): the transport calls them *)
(* one at a time in arrival order, so a handler is one atomic action.      *)
(* What a handler reads from outside the process (the file behind a URI,   *)
(* whether a debug file can be created) is an input of its action.         *)
(***************************************************************************)
EXTENDS Integers, Sequences, FiniteSets, TLC

(***************************************************************************)
(* Bounds of the model.                                                    *)
(***************************************************************************)
\* Document versions a client sends are 1..MaxVersion.
MaxVersion == 2
\* Native (analyzer) line numbers range over 0..MaxLine.
MaxLine == 1
\* Native (analyzer) column numbers range over 0..MaxColumn.
MaxColumn == 2
\* A didChange carries 0..MaxChanges content changes.
MaxChanges == 2
\* The largest character of a hover position.
MaxHoverChar == 10

\* usize and u64 are 64 bits wide in the program (a 64-bit target, where
\* `as u64` changes nothing).  A value of these types is written as its
\* NLimbs limbs of LimbBits bits, most significant first, so that
\* usize::MAX = 2^64 - 1 = 18446744073709551615 is <<65535, 65535, 65535,
\* 65535>>.
UsizeBits == 64
LimbBits == 16
LimbBase == 2 ^ LimbBits
NLimbs == UsizeBits \div LimbBits

\* The value n, 0 <= n < LimbBase * LimbBase, as a usize/u64.
U64(n) ==
    [i \in 1..NLimbs |->
        IF i = NLimbs THEN n % LimbBase
        ELSE IF i = NLimbs - 1 THEN n \div LimbBase
        ELSE 0]

\* usize::MAX
UsizeMax == [i \in 1..NLimbs |-> LimbBase - 1]

\* a < b on usize/u64 values.
U64Less(a, b) ==
    \E k \in 1..NLimbs :
        /\ \A i \in 1..(k - 1) : a[i] = b[i]
        /\ a[k] < b[k]

None == "None"

\* Option<T>: no value, or one.
NoneOpt == <<>>
Some(x) == <<x>>

(***************************************************************************)
(* Texts.  A source text is a sequence of lines, a line a sequence of      *)
(* characters.  "a" stands for an ASCII character, "astral" for a          *)
(* character outside the basic multilingual plane.                         *)
(***************************************************************************)
Chars == {"a", "astral"}

\* UTF-16 code units of one character (the protocol's column unit).
Utf16Len(ch) == IF ch = "astral" THEN 2 ELSE 1

\* A native column counts characters: the character at native column C of
\* a line is the C-th of the line.

AsciiLine == <<"a", "a">>
AstralLine == <<"astral", "a">>
Sources == { <<AsciiLine>>, <<AstralLine>> }

\* pos::Location, pos::Range of the analyzer (1-based when it comes from
\* the lexer; the type admits 0).
Locations == [line : 0..MaxLine, column : 0..MaxColumn]
Ranges == [start : Locations, end : Locations]

\* An error message is a String: the sequence of its characters, each a
\* Unicode code point.
\* unexpected end of input
PlainMsg ==
    <<117, 110, 101, 120, 112, 101, 99, 116, 101, 100, 32, 101, 110, 100,
      32, 111, 102, 32, 105, 110, 112, 117, 116>>
\* "}" a\b<LF>
QuotedMsg ==
    <<34, 125, 34, 32, 97, 92, 98, 10>>
\* a<FF><NUL><TAB><CR><ESC><DEL>e<U+0301><U+00A0><U+200B><U+2028><U+00E9>'
ControlMsg ==
    <<97, 12, 0, 9, 13, 27, 127, 101, 769, 160, 8203, 8232, 233, 39>>
ErrMsgs == {PlainMsg, QuotedMsg, ControlMsg}

\* What script::Script::parse answers, with the part of e.context() and
\* e.to_string() that run_checks reads.
ParseOk == [ok |-> TRUE, msg |-> <<>>, range |-> NoneOpt]
ParseErrs == [ok : {FALSE}, msg : ErrMsgs,
              range : {Some(r) : r \in Ranges} \cup {NoneOpt}]
Outcomes == {ParseOk} \cup ParseErrs

\* The analyzer is an external pure function of the text.  A text of the
\* model is a source together with the analyzer's answer for it, so that
\* parsing is a function of the text whatever the analyzer is.
Texts == [src : Sources, res : Outcomes]

Parse(text) == text.res


Loc(l, c) == [line |-> l, column |-> c]
Err(m, r) == [ok |-> FALSE, msg |-> m, range |-> r]
Text(s, r) == [src |-> s, res |-> r]

\* The texts of a session: a well-formed one, and one whose error lies
\* behind an astral character.
OkText == Text(<<AsciiLine>>, ParseOk)
ErrText ==
    Text(<<AstralLine>>,
         Err(PlainMsg,
             Some([start |-> Loc(1, 2), end |-> Loc(1, MaxColumn)])))
SessionTexts == {OkText, ErrText}

(***************************************************************************)
(* URIs.  A Url is its scheme, its host (an Option) and its path, the path  *)
(* a sequence of pieces whose first is "/" when the path starts with a     *)
(* slash.                                                                  *)
(***************************************************************************)
Uri(scheme, host, path) == [scheme |-> scheme, host |-> host, path |-> path]

\* file:///a.tremor
FileUri == Uri("file", NoneOpt, <<"/", "a.tremor">>)
\* untitled:b
UntitledUri == Uri("untitled", NoneOpt, <<"b">>)
\* untitled:/b
UntitledPathUri == Uri("untitled", NoneOpt, <<"/", "b">>)
\* file://remote/a.tremor
RemoteFileUri == Uri("file", Some("remote"), <<"/", "a.tremor">>)
\* http://localhost/a.tremor
LocalHttpUri == Uri("http", Some("localhost"), <<"/", "a.tremor">>)

Uris == {FileUri, UntitledUri, UntitledPathUri, RemoteFileUri, LocalHttpUri}

\* The URIs of a session: one with a file path, one without.
SessionUris == {FileUri, UntitledUri}

\* The uri of the record of a message that names no document.
NoUri == Uri("", NoneOpt, <<>>)

\* Url::path_segments: the path behind its leading slash, None for a URL
\* whose path has none (a cannot-be-a-base URL).
path_segments(uri) ==
    IF uri.path # <<>> /\ Head(uri.path) = "/"
    THEN Some(Tail(uri.path))
    ELSE NoneOpt

\* Url::to_file_path (on unix): Ok(path) for a URL with path segments and
\* no host or the host localhost, whatever the scheme; Err(()) otherwise.
\* Ok(p) is Some(p), Err(()) is NoneOpt.
to_file_path(uri) ==
    IF path_segments(uri) = NoneOpt THEN NoneOpt
    ELSE IF uri.host # NoneOpt /\ uri.host # Some("localhost") THEN NoneOpt
    ELSE Some(uri.path)

(***************************************************************************)
(* The pure part: positions, diagnostics, run_checks.                      *)
(***************************************************************************)
\* x - 1 on a usize: with overflow checks (a debug build) 0 - 1 panics,
\* without them (a release build) it wraps.
SubOne(x) ==
    LET nz == {i \in 1..NLimbs : x[i] # 0}
    IN  IF nz = {} THEN UsizeMax
        ELSE LET k == CHOOSE i \in nz : \A j \in nz : j <= i
             IN  [i \in 1..NLimbs |->
                    IF i < k THEN x[i]
                    ELSE IF i = k THEN x[i] - 1
                    ELSE LimbBase - 1]
SubOnePanics(x, checks) == checks /\ x = U64(0)

Position(l, c) == [line |-> l, character |-> c]

to_lsp_position(location) ==
    Position(SubOne(U64(location.line)), SubOne(U64(location.column)))

to_lsp_position_panics(location, checks) ==
    \/ SubOnePanics(U64(location.line), checks)
    \/ SubOnePanics(U64(location.column), checks)

\* Range::default()
DefaultRange ==
    [start |-> Position(U64(0), U64(0)), end |-> Position(U64(0), U64(0))]

\* Code points of the characters the Debug form names.
Nul == 0
Tab == 9
LineFeed == 10
CarriageReturn == 13
DoubleQuote == 34
DigitZero == 48
Backslash == 92
LowerA == 97
LowerN == 110
LowerR == 114
LowerT == 116
LowerU == 117
OpenBrace == 123
CloseBrace == 125

\* The Unicode tables of char::escape_debug, for the characters of the
\* model's messages (ASCII and the characters of ControlMsg): those with the
\* property Grapheme_Extend, and those that are not printable.
GraphemeExtend == {769}
NotPrintable == (0..31) \cup {127, 160, 8203, 8232}

\* The hexadecimal digits of n in lower case, without leading zeros.
RECURSIVE LowerHex(_)
LowerHex(n) ==
    LET d == n % 16
        digit == IF d < 10 THEN DigitZero + d ELSE LowerA + (d - 10)
    IN  IF n < 16 THEN <<digit>> ELSE Append(LowerHex(n \div 16), digit)

\* char::escape_unicode: \u{...}
EscapeUnicode(c) ==
    <<Backslash, LowerU, OpenBrace>> \o LowerHex(c) \o <<CloseBrace>>

\* char::escape_debug as the Debug form of a string applies it to one
\* character: named escapes for NUL, tab, CR, LF, backslash and the double
\* quote (the single quote is left alone); \u{...} for a Grapheme_Extend
\* character and for one that is not printable; the character itself
\* otherwise.
EscapeDebug(c) ==
    IF c = Nul THEN <<Backslash, DigitZero>>
    ELSE IF c = Tab THEN <<Backslash, LowerT>>
    ELSE IF c = CarriageReturn THEN <<Backslash, LowerR>>
    ELSE IF c = LineFeed THEN <<Backslash, LowerN>>
    ELSE IF c = Backslash THEN <<Backslash, Backslash>>
    ELSE IF c = DoubleQuote THEN <<Backslash, DoubleQuote>>
    ELSE IF c \in GraphemeExtend THEN EscapeUnicode(c)
    ELSE IF c \in NotPrintable THEN EscapeUnicode(c)
    ELSE <<c>>

RECURSIVE EscapeAll(_)
EscapeAll(s) ==
    IF s = <<>> THEN <<>> ELSE EscapeDebug(Head(s)) \o EscapeAll(Tail(s))

\* format!("{:?}", &e.to_string()): the Debug form of a string is the
\* string with its characters escaped, between double quotes.
DebugFmt(s) == <<DoubleQuote>> \o EscapeAll(s) \o <<DoubleQuote>>

Diagnostic(range, e) ==
    [range |-> range,
     severity |-> None,
     code |-> None,
     source |-> None,
     message |-> DebugFmt(e.msg),
     related_information |-> None]

\* ErrorRange with the fallback arm in 1-based coordinates.
ErrorRange_OneBasedDefault(e) ==
    IF e.range # NoneOpt
    THEN [start |-> to_lsp_position(e.range[1].start),
          end |-> to_lsp_position(e.range[1].end)]
    ELSE [start |-> Position(U64(1), U64(1)), end |-> Position(U64(1), U64(1))]

\* The match on e.context() of run_checks.
ErrorRange(e) ==
    IF e.range # NoneOpt
    THEN [start |-> to_lsp_position(e.range[1].start),
          end |-> to_lsp_position(e.range[1].end)]
    ELSE DefaultRange

ErrorRangePanics(e, checks) ==
    /\ e.range # NoneOpt
    /\ \/ to_lsp_position_panics(e.range[1].start, checks)
       \/ to_lsp_position_panics(e.range[1].end, checks)

\* file_dbg(name, content): File::create(path).unwrap() panics when the
\* file cannot be created; created tells whether File::create succeeds.
file_dbg_panics(created) == ~created

\* run_checks(text): what it returns and what it does on the way.
\*   panic  : the call unwinds instead of returning
\*   diags  : the Vec<Diagnostic> returned (when it returns)
\*   files  : debug files created
\*   regs   : registries constructed by registry::registry()
\*   parsed : texts handed to script::Script::parse
run_checks(text, checks, created) ==
    IF file_dbg_panics(created)
    THEN [panic |-> TRUE, diags |-> <<>>, files |-> <<>>, regs |-> 0,
          parsed |-> <<>>]
    ELSE LET e == Parse(text) IN
         IF e.ok
         THEN [panic |-> FALSE, diags |-> <<>>, files |-> <<"run_checks">>,
               regs |-> 1, parsed |-> <<text>>]
         ELSE IF ErrorRangePanics(e, checks)
         THEN [panic |-> TRUE, diags |-> <<>>, files |-> <<"run_checks">>,
               regs |-> 1, parsed |-> <<text>>]
         ELSE [panic |-> FALSE, diags |-> <<Diagnostic(ErrorRange(e), e)>>,
               files |-> <<"run_checks">>, regs |-> 1, parsed |-> <<text>>]

(***************************************************************************)
(* State.                                                                  *)
(*   overflowChecks : the build panics on integer overflow (debug profile) *)
(*                    or wraps (release profile); fixed for a run          *)
(*   panicked       : main or a handler panicked; the serve loop is gone   *)
(*   published      : per URI, the diagnostics last published to the       *)
(*                    client, NoneOpt before the first publish             *)
(*   opened         : the URIs the client has open: named by a didOpen and *)
(*                    by no didClose since (the client's side; the server  *)
(*                    keeps no such table)                                 *)
(*   ev             : the last message handled, with what its handler did; *)
(*                    wasOpen tells whether its URI was open when it came, *)
(*                    again whether it is a didChange that repeats the     *)
(*                    texts of the didChange handled just before it, for   *)
(*                    the same URI with a greater version                  *)
(* Backend is a unit struct: the server itself keeps no state.             *)
(***************************************************************************)
VARIABLES overflowChecks, panicked, published, opened, ev

vars == <<overflowChecks, panicked, published, opened, ev>>

NoEvent ==
    [kind |-> "none", uri |-> NoUri, version |-> 0, changes |-> <<>>,
     disk |-> NoneOpt, parsed |-> <<>>, out |-> <<>>, files |-> <<>>,
     regs |-> 0, panic |-> FALSE, response |-> NoneOpt,
     wasOpen |-> FALSE, again |-> FALSE]

\* main up to Server::serve: its first statement is file_dbg("main", ..),
\* which panics when the debug file cannot be created; the process then
\* ends before it serves a message.
main(created) ==
    LET base == [NoEvent EXCEPT !.kind = "main"]
    IN  IF file_dbg_panics(created)
        THEN [base EXCEPT !.panic = TRUE]
        ELSE [base EXCEPT !.files = <<"main">>]

Init ==
    /\ overflowChecks \in BOOLEAN
    /\ \E created \in BOOLEAN :
          /\ ev = main(created)
          /\ panicked = main(created).panic
    /\ published = [u \in Uris |-> NoneOpt]
    /\ opened = {}

\* printer.publish_diagnostics(uri, diagnostics)
PublishDiagnostics(uri, diags) ==
    [method |-> "textDocument/publishDiagnostics", uri |-> uri,
     diagnostics |-> diags]

\* printer.log_message(typ, message)
LogMessage(typ, message) ==
    [method |-> "window/logMessage", type |-> typ, message |-> message]

IsPublish(out) ==
    out # <<>> /\ out[1].method = "textDocument/publishDiagnostics"

\* Deliver with a publish that resets what every other URI shows.
Deliver_ClearsOthers(cl, out) ==
    IF IsPublish(out)
    THEN [u \in DOMAIN cl |->
            IF u = out[1].uri THEN Some(out[1].diagnostics) ELSE NoneOpt]
    ELSE cl

\* The client's view after the messages of one handler.
Deliver(cl, out) ==
    IF IsPublish(out)
    THEN [cl EXCEPT ![out[1].uri] = Some(out[1].diagnostics)]
    ELSE cl

\* The documents the client has open after a message.
Opened(op, e) ==
    IF e.kind = "didOpen" THEN op \cup {e.uri}
    ELSE IF e.kind = "didClose" THEN op \ {e.uri}
    ELSE op

\* e is a didChange that repeats the didChange d handled just before it.
Repeats(d, e) ==
    /\ d.kind = "didChange" /\ e.kind = "didChange"
    /\ e.uri = d.uri
    /\ e.changes = d.changes
    /\ e.version > d.version

\* A handler ran to its end or panicked: e is the record of what it did.
Handled(e) ==
    /\ ev' = [e EXCEPT !.wasOpen = e.uri \in opened,
                       !.again = Repeats(ev, e)]
    /\ opened' = Opened(opened, e)
    /\ panicked' = e.panic
    /\ published' = Deliver(published, e.out)
    /\ UNCHANGED overflowChecks

(***************************************************************************)
(* Notifications.                                                          *)
(***************************************************************************)
\* did_open: read is what fs::read_to_string answers when the URI has a
\* file path (NoneOpt for Err); createdH, createdR tell whether the debug files of the
\* handler and of run_checks can be created.
did_open(uri, version, text, read, createdH, createdR) ==
    LET base == [NoEvent EXCEPT !.kind = "didOpen", !.uri = uri,
                                !.version = version, !.changes = <<text>>]
    IN  IF file_dbg_panics(createdH)
        THEN [base EXCEPT !.panic = TRUE]
        ELSE IF to_file_path(uri) = NoneOpt \/ read = NoneOpt
        THEN [base EXCEPT !.files = <<"didOpen">>]
        ELSE LET r == run_checks(read[1], overflowChecks, createdR) IN
             [base EXCEPT
                !.disk = read,
                !.files = <<"didOpen">> \o r.files,
                !.regs = r.regs,
                !.parsed = r.parsed,
                !.panic = r.panic,
                !.out = IF r.panic THEN <<>>
                        ELSE <<PublishDiagnostics(uri, r.diags)>>]

\* did_change with a diagnostics list kept across calls: each result is
\* appended to what is published for the URI.
did_change_Accumulating(uri, version, changes, createdH, createdR) ==
    LET base == [NoEvent EXCEPT !.kind = "didChange", !.uri = uri,
                                !.version = version, !.changes = changes]
        old == IF published[uri] = NoneOpt THEN <<>> ELSE published[uri][1]
    IN  IF file_dbg_panics(createdH)
        THEN [base EXCEPT !.panic = TRUE]
        ELSE IF Len(changes) = 0
        THEN [base EXCEPT !.files = <<"didChange">>, !.panic = TRUE]
        ELSE LET r == run_checks(changes[1], overflowChecks, createdR) IN
             [base EXCEPT
                !.files = <<"didChange">> \o r.files,
                !.regs = r.regs,
                !.parsed = r.parsed,
                !.panic = r.panic,
                !.out = IF r.panic THEN <<>>
                        ELSE <<PublishDiagnostics(uri, old \o r.diags)>>]

\* did_change that ignores a change to a document that is not open.
did_change_OpenOnly(uri, version, changes, createdH, createdR) ==
    LET base == [NoEvent EXCEPT !.kind = "didChange", !.uri = uri,
                                !.version = version, !.changes = changes]
    IN  IF file_dbg_panics(createdH)
        THEN [base EXCEPT !.panic = TRUE]
        ELSE IF uri \notin opened
        THEN [base EXCEPT !.files = <<"didChange">>]
        ELSE IF Len(changes) = 0
        THEN [base EXCEPT !.files = <<"didChange">>, !.panic = TRUE]
        ELSE LET r == run_checks(changes[1], overflowChecks, createdR) IN
             [base EXCEPT
                !.files = <<"didChange">> \o r.files,
                !.regs = r.regs,
                !.parsed = r.parsed,
                !.panic = r.panic,
                !.out = IF r.panic THEN <<>>
                        ELSE <<PublishDiagnostics(uri, r.diags)>>]

\* did_change: content_changes[0] panics on an empty list.
did_change(uri, version, changes, createdH, createdR) ==
    LET base == [NoEvent EXCEPT !.kind = "didChange", !.uri = uri,
                                !.version = version, !.changes = changes]
    IN  IF file_dbg_panics(createdH)
        THEN [base EXCEPT !.panic = TRUE]
        ELSE IF Len(changes) = 0
        THEN [base EXCEPT !.files = <<"didChange">>, !.panic = TRUE]
        ELSE LET r == run_checks(changes[1], overflowChecks, createdR) IN
             [base EXCEPT
                !.files = <<"didChange">> \o r.files,
                !.regs = r.regs,
                !.parsed = r.parsed,
                !.panic = r.panic,
                !.out = IF r.panic THEN <<>>
                        ELSE <<PublishDiagnostics(uri, r.diags)>>]

did_close(uri, createdH) ==
    LET base == [NoEvent EXCEPT !.kind = "didClose", !.uri = uri]
    IN  IF file_dbg_panics(createdH)
        THEN [base EXCEPT !.panic = TRUE]
        ELSE [base EXCEPT !.files = <<"didClose">>,
                          !.out = <<PublishDiagnostics(uri, <<>>)>>]

DidOpen(uri, version, text, read, createdH, createdR) ==
    /\ ~panicked
    /\ to_file_path(uri) = NoneOpt => read = NoneOpt
    /\ (~createdH \/ read = NoneOpt) => ~createdR
    /\ Handled(did_open(uri, version, text, read, createdH, createdR))

DidChange(uri, version, changes, createdH, createdR) ==
    /\ ~panicked
    /\ (~createdH \/ changes = <<>>) => ~createdR
    /\ Handled(did_change(uri, version, changes, createdH, createdR))

DidClose(uri, createdH) ==
    /\ ~panicked
    /\ Handled(did_close(uri, createdH))

(***************************************************************************)
(* Requests and the other notifications.                                   *)
(***************************************************************************)
\* ServerCapabilities::default() has every provider None.
DefaultCapabilities ==
    [text_document_sync |-> NoneOpt,
     hover_provider |-> NoneOpt,
     completion_provider |-> NoneOpt,
     document_highlight_provider |-> NoneOpt,
     document_symbol_provider |-> NoneOpt,
     workspace_symbol_provider |-> NoneOpt,
     execute_command_provider |-> NoneOpt]

initialize ==
    [NoEvent EXCEPT
       !.kind = "initialize",
       !.response =
           Some([capabilities |->
                   [DefaultCapabilities EXCEPT !.hover_provider = Some(TRUE)]])]

initialized(createdH) ==
    LET base == [NoEvent EXCEPT !.kind = "initialized"]
    IN  IF file_dbg_panics(createdH)
        THEN [base EXCEPT !.panic = TRUE]
        ELSE [base EXCEPT !.files = <<"initialized">>,
                          !.out = <<LogMessage("Info", "server initialized!")>>]

shutdown == [NoEvent EXCEPT !.kind = "shutdown"]

symbol == [NoEvent EXCEPT !.kind = "symbol"]

execute_command == [NoEvent EXCEPT !.kind = "execute_command"]

completion == [NoEvent EXCEPT !.kind = "completion"]

document_highlight == [NoEvent EXCEPT !.kind = "document_highlight"]

\* u64::to_string: the decimal digits, most significant first.
RECURSIVE to_string(_)
to_string(n) ==
    LET d == <<"0", "1", "2", "3", "4", "5", "6", "7", "8", "9">>[(n % 10) + 1]
    IN  IF n < 10 THEN <<d>> ELSE Append(to_string(n \div 10), d)

hover(character, createdH) ==
    LET base == [NoEvent EXCEPT !.kind = "hover"]
    IN  IF file_dbg_panics(createdH)
        THEN [base EXCEPT !.panic = TRUE]
        ELSE [base EXCEPT
                !.files = <<"hover">>,
                !.response = Some([contents |-> to_string(character),
                                   range |-> NoneOpt])]

Initialize == ~panicked /\ Handled(initialize)
Initialized(createdH) == ~panicked /\ Handled(initialized(createdH))
Shutdown == ~panicked /\ Handled(shutdown)
Symbol == ~panicked /\ Handled(symbol)
ExecuteCommand == ~panicked /\ Handled(execute_command)
Completion == ~panicked /\ Handled(completion)
DocumentHighlight == ~panicked /\ Handled(document_highlight)
Hover(character, createdH) == ~panicked /\ Handled(hover(character, createdH))

(***************************************************************************)
(* The session: any message at any time, until a handler panics.           *)
(***************************************************************************)
Versions == 1..MaxVersion

\* contentChanges lists of full texts over T, of length 0..MaxChanges.
ChangeLists(T) ==
    UNION { [1..n -> [text : T]] : n \in 0..MaxChanges }

\* The texts of a contentChanges list.
ChangeTexts(changes) == [i \in 1..Len(changes) |-> changes[i].text]

Requests ==
    \/ Initialize
    \/ \E c \in BOOLEAN : Initialized(c)
    \/ Shutdown
    \/ Symbol
    \/ ExecuteCommand
    \/ Completion
    \/ DocumentHighlight
    \/ \E n \in {0, MaxHoverChar}, c \in BOOLEAN : Hover(n, c)

Notifications(U, T) ==
    \/ \E u \in U, v \in Versions, t \in T,
          rd \in {Some(x) : x \in T} \cup {NoneOpt},
          ch \in BOOLEAN, cr \in BOOLEAN :
          DidOpen(u, v, t, rd, ch, cr)
    \/ \E u \in U, v \in Versions, cs \in ChangeLists(T),
          ch \in BOOLEAN, cr \in BOOLEAN :
          DidChange(u, v, ChangeTexts(cs), ch, cr)
    \/ \E u \in U, ch \in BOOLEAN : DidClose(u, ch)

Next == Requests \/ Notifications(SessionUris, SessionTexts)

Spec == Init /\ [][Next]_vars

(***************************************************************************)
(* One notification, its analyzed text any text of the bounded universe.   *)
(* No handler reads server state (Backend has no fields), so what a        *)
(* handler does from the initial state is what it does from any state.     *)
(***************************************************************************)
\* Lists of length 0..MaxChanges-1 over T: what follows the first change.
ChangeTails(T) ==
    UNION { [1..n -> T] : n \in 0..(MaxChanges - 1) }

AnalysisNext ==
    /\ ev.kind = "main"
    /\ \/ \E u \in Uris, v \in Versions, t \in SessionTexts,
             rd \in {Some(x) : x \in Texts} \cup {NoneOpt},
             ch \in BOOLEAN, cr \in BOOLEAN :
             DidOpen(u, v, t, rd, ch, cr)
       \/ \E u \in Uris, v \in Versions, t \in Texts,
             rest \in ChangeTails(SessionTexts),
             ch \in BOOLEAN, cr \in BOOLEAN :
             DidChange(u, v, <<t>> \o rest, ch, cr)

SpecAnalysis == Init /\ [][AnalysisNext]_vars

(***************************************************************************)
(* Vocabulary of the properties.                                           *)
(***************************************************************************)
IsDocEvent(e) == e.kind \in {"didOpen", "didChange"}

\* The analyzer was called in the last handler and answered an error.
AnalyzerFailed == ev.parsed # <<>> /\ ~Parse(ev.parsed[1]).ok

\* The diagnostics the last handler published (when it published).
PublishedNow == ev.out[1].diagnostics

\* The analysis of a text when nothing goes wrong around it.
AnalysisOf(text) == run_checks(text, overflowChecks, TRUE).diags

RECURSIVE Utf16Units(_)
Utf16Units(chars) ==
    IF chars = <<>> THEN 0
    ELSE Utf16Len(Head(chars)) + Utf16Units(Tail(chars))

\* A native location that points into the text (or just behind a line).
InText(text, loc) ==
    /\ loc.line \in 1..Len(text.src)
    /\ loc.column \in 1..(Len(text.src[loc.line]) + 1)

\* The column of a native location recomputed in UTF-16 code units by
\* scanning its source line, 1-based like the native one.
Utf16Column(text, loc) ==
    1 + Utf16Units(SubSeq(text.src[loc.line], 1, loc.column - 1))

(***************************************************************************)
(* C1.  Published diagnostics are monotonic in the document version: when  *)
(* a didChange for a URI is handled right after a didChange of a newer     *)
(* version for the same URI, the older one's result is discarded and what  *)
(* is published for the URI stays the newer version's analysis.            *)
(***************************************************************************)
C1_OlderNeverOverwritesNewer ==
    [][(/\ ev.kind = "didChange" /\ IsPublish(ev.out)
        /\ ev'.kind = "didChange" /\ ~ev'.panic
        /\ ev'.uri = ev.uri
        /\ ev'.version < ev.version)
          => published'[ev.uri] = Some(AnalysisOf(ev.changes[Len(ev.changes)]))]_vars

(***************************************************************************)
(* C2.  Every didClose publishes the empty diagnostic set for its URI, so  *)
(* that right after a close the last publish for the URI is the empty set. *)
(***************************************************************************)
C2_ClosePublishesEmpty ==
    ev.kind = "didClose"
        => /\ ev.out = <<PublishDiagnostics(ev.uri, <<>>)>>
           /\ published[ev.uri] = Some(<<>>)

(***************************************************************************)
(* C3.  When every text of a didOpen/didChange parses without error, the   *)
(* handler (when it returns) has published the empty list for the URI,     *)
(* whatever the URI.                                                       *)
(***************************************************************************)
C3_WellFormedPublishesEmpty ==
    (/\ IsDocEvent(ev)
     /\ ~ev.panic
     /\ \A i \in DOMAIN ev.changes : Parse(ev.changes[i]).ok)
        => ev.out = <<PublishDiagnostics(ev.uri, <<>>)>>

(***************************************************************************)
(* C4.  A didOpen (that returns, the file behind the URI being readable)   *)
(* publishes exactly the analysis of the text the notification carries.    *)
(***************************************************************************)
C4_OpenAnalyzesNotificationText ==
    (ev.kind = "didOpen" /\ ~ev.panic /\ ev.disk # NoneOpt)
        => ev.out = <<PublishDiagnostics(ev.uri, AnalysisOf(ev.changes[1]))>>

(***************************************************************************)
(* C5.  No handler panics: every handler of a serving process returns      *)
(* normally and the session keeps processing.                              *)
(***************************************************************************)
C5_NoHandlerPanics == ev.kind # "main" => (~ev.panic /\ ~panicked)

(***************************************************************************)
(* C6.  Whenever the analyzer answers an error, run_checks returns exactly *)
(* one diagnostic whose message is the error's, and that list is what is   *)
(* published.                                                              *)
(***************************************************************************)
C6_OneDiagnosticPerError ==
    AnalyzerFailed
        => /\ IsPublish(ev.out)
           /\ Len(PublishedNow) = 1
           /\ PublishedNow[1].message = DebugFmt(Parse(ev.parsed[1]).msg)

(***************************************************************************)
(* C7.  Every published diagnostic has a severity, and it is Error.        *)
(***************************************************************************)
C7_SeverityIsError ==
    \A u \in Uris :
        published[u] # NoneOpt
            => \A i \in DOMAIN published[u][1] :
                   published[u][1][i].severity = "Error"

(***************************************************************************)
(* C8.  For an error at native location (L, C) inside the text, the        *)
(* published range starts at (L-1, C'-1), C' being the column recomputed   *)
(* in UTF-16 code units.                                                   *)
(***************************************************************************)
C8_StartInUtf16Units ==
    (/\ AnalyzerFailed
     /\ IsPublish(ev.out)
     /\ Parse(ev.parsed[1]).range # NoneOpt
     /\ InText(ev.parsed[1], Parse(ev.parsed[1]).range[1].start))
        => LET start == Parse(ev.parsed[1]).range[1].start
           IN  PublishedNow[1].range.start =
                   Position(U64(start.line - 1),
                            U64(Utf16Column(ev.parsed[1], start) - 1))

(***************************************************************************)
(* C9.  When the analyzer's error carries no range, the handler does not   *)
(* fail: it publishes one diagnostic whose range is the zero-length range  *)
(* at the start of the document.                                           *)
(***************************************************************************)
C9_NoRangeGivesDefaultRange ==
    (AnalyzerFailed /\ Parse(ev.parsed[1]).range = NoneOpt)
        => /\ ~ev.panic
           /\ IsPublish(ev.out)
           /\ Len(PublishedNow) = 1
           /\ PublishedNow[1].range = [start |-> Position(U64(0), U64(0)),
                                       end |-> Position(U64(0), U64(0))]

C9_Witness ==
    /\ AnalyzerFailed
    /\ Parse(ev.parsed[1]).range = NoneOpt
    /\ IsPublish(ev.out)
    /\ published[ev.uri] = Some(PublishedNow)

(***************************************************************************)
(* C10.  initialize declares hover, completion, symbols and highlighting   *)
(* absent, and no hover request is answered with data.                     *)
(***************************************************************************)
C10_OnlyDiagnosticsDeclared ==
    /\ ev.kind = "initialize"
          => LET caps == ev.response[1].capabilities
             IN  /\ caps.hover_provider = NoneOpt
                 /\ caps.completion_provider = NoneOpt
                 /\ caps.document_symbol_provider = NoneOpt
                 /\ caps.workspace_symbol_provider = NoneOpt
                 /\ caps.document_highlight_provider = NoneOpt
    /\ (ev.kind = "hover" /\ ~ev.panic) => ev.response = NoneOpt

(***************************************************************************)
(* Vocabulary of the later properties.                                     *)
(***************************************************************************)
IsLifecycle(e) == e.kind \in {"didOpen", "didChange", "didClose"}

\* The texts a document notification brings with it: the texts it carries
\* and, for a didOpen, what it read from the file behind the URI.
InputTexts(e) == {e.changes[i] : i \in DOMAIN e.changes}
                     \cup {e.disk[i] : i \in DOMAIN e.disk}

\* Lexicographic order of protocol positions.
NotAfter(p, q) ==
    \/ U64Less(p.line, q.line)
    \/ /\ p.line = q.line
       /\ (U64Less(p.character, q.character) \/ p.character = q.character)

\* The protocol coordinate p is the native coordinate n less one.
OneLess(p, n) == n >= 1 /\ p = U64(n - 1) /\ U64Less(p, U64(n))

(***************************************************************************)
(* C11.  Every didOpen, didChange or didClose handled (by a handler that   *)
(* returns) results in exactly one publish, for the URI of the             *)
(* notification.                                                           *)
(***************************************************************************)
C11_EveryScheduleIsPublished ==
    (IsLifecycle(ev) /\ ~ev.panic)
        => /\ Len(ev.out) = 1
           /\ IsPublish(ev.out)
           /\ ev.out[1].uri = ev.uri

(***************************************************************************)
(* C12.  When an open document is closed, what is published for its URI    *)
(* afterwards is the empty set: nothing computed from the opened content   *)
(* stays or arrives after the close.                                       *)
(***************************************************************************)
C12_OpenThenCloseEndsEmpty ==
    (ev.kind = "didClose" /\ ev.wasOpen) => published[ev.uri] = Some(<<>>)

(***************************************************************************)
(* C13.  When a didOpen cannot read its document (the URI has no file      *)
(* path, or the file cannot be read), no diagnostics are published and the *)
(* failure is logged.                                                      *)
(***************************************************************************)
C13_ReadFailureIsLogged ==
    (ev.kind = "didOpen" /\ ~ev.panic /\ ev.disk = NoneOpt)
        => /\ ~IsPublish(ev.out)
           /\ \E i \in DOMAIN ev.out : ev.out[i].method = "window/logMessage"

(***************************************************************************)
(* C14.  Idempotence of update: a didChange that repeats the texts of the  *)
(* didChange handled just before it, for the same URI and with a greater   *)
(* version, leaves every URI's published diagnostics as they were.         *)
(***************************************************************************)
C14_RepeatedChangeIsIdempotent ==
    [][Repeats(ev, ev') => published' = published]_vars

C14_Witness ==
    /\ ev.again
    /\ IsPublish(ev.out)
    /\ PublishedNow # <<>>
    /\ published[ev.uri] = Some(PublishedNow)

(***************************************************************************)
(* C15.  A didChange for a URI that is not open (never opened, or closed)  *)
(* is handled like one for an open document: when the handler returns, a   *)
(* text the notification carries was analyzed and its diagnostics were     *)
(* published for the URI.                                                  *)
(***************************************************************************)
C15_ChangeIsImplicitOpen ==
    (ev.kind = "didChange" /\ ~ev.wasOpen /\ ~ev.panic)
        => /\ ev.parsed # <<>>
           /\ ev.parsed[1] \in InputTexts(ev)
           /\ ev.out = <<PublishDiagnostics(ev.uri, AnalysisOf(ev.parsed[1]))>>
           /\ published[ev.uri] = Some(AnalysisOf(ev.parsed[1]))

C15_Witness ==
    /\ ev.kind = "didChange"
    /\ ~ev.wasOpen
    /\ ev.uri \notin opened
    /\ IsPublish(ev.out)
    /\ PublishedNow # <<>>

(***************************************************************************)
(* C16.  No didOpen or didChange constructs a registry: the registry is    *)
(* built once at process start and only read by the analyses.              *)
(***************************************************************************)
C16_NoRegistryPerRequest ==
    IsDocEvent(ev) => ev.regs = 0

(***************************************************************************)
(* C17.  After a didChange with several content changes, what is published *)
(* is the analysis of the last content change of the list.                 *)
(***************************************************************************)
C17_LastChangeIsAnalyzed ==
    (ev.kind = "didChange" /\ ~ev.panic /\ ev.changes # <<>>)
        => /\ IsPublish(ev.out)
           /\ PublishedNow = AnalysisOf(ev.changes[Len(ev.changes)])

(***************************************************************************)
(* C18.  A didOpen, didChange or didClose sends at most one message, a     *)
(* publishDiagnostics for the URI it names; what is published for every    *)
(* other URI stays as it was; and the payload is determined by what the    *)
(* notification itself brings (empty for a close, else the analysis of a   *)
(* text among its inputs), whatever was handled before.                    *)
(***************************************************************************)
C18_OnePublishOwnUriOwnInput ==
    [][IsLifecycle(ev')
          => /\ Len(ev'.out) <= 1
             /\ ev'.out # <<>>
                   => /\ IsPublish(ev'.out)
                      /\ ev'.out[1].uri = ev'.uri
                      /\ published'[ev'.uri] = Some(ev'.out[1].diagnostics)
                      /\ IF ev'.kind = "didClose"
                         THEN ev'.out[1].diagnostics = <<>>
                         ELSE /\ ev'.parsed # <<>>
                              /\ ev'.parsed[1] \in InputTexts(ev')
                              /\ ev'.out[1].diagnostics
                                     = AnalysisOf(ev'.parsed[1])
             /\ \A u \in Uris :
                   (u # ev'.uri \/ ev'.out = <<>>)
                       => published'[u] = published[u]]_vars

C18_Witness ==
    /\ IsLifecycle(ev)
    /\ IsPublish(ev.out)
    /\ \E u \in Uris :
          /\ u # ev.uri
          /\ published[u] # NoneOpt
          /\ published[u] # published[ev.uri]

(***************************************************************************)
(* C19.  to_lsp_position never wraps: every published range that comes     *)
(* from a native range has line and character exactly one less than the    *)
(* native line and column, below them, and its start is not after its end. *)
(***************************************************************************)
C19_PositionsNeverWrap ==
    (/\ AnalyzerFailed
     /\ IsPublish(ev.out)
     /\ Parse(ev.parsed[1]).range # NoneOpt)
        => LET native == Parse(ev.parsed[1]).range[1]
               range == PublishedNow[1].range
           IN  /\ OneLess(range.start.line, native.start.line)
               /\ OneLess(range.start.character, native.start.column)
               /\ OneLess(range.end.line, native.end.line)
               /\ OneLess(range.end.character, native.end.column)
               /\ NotAfter(range.start, range.end)

====
